---------------------------- MODULE Spec2Model ----------------------------
(***************************************************************************)
(* Model of the arduclock firmware (gps_clock_auto_timezone variant, with  *)
(* the manual-switch behaviour it shares with gps_clock_tz_dst).           *)
(*                                                                         *)
(* Latitudes and longitudes are integers in hundredths of a degree, so     *)
(* 32.0 degrees is 3200 and LOCATION_TOLERANCE (0.1 degree) is 10.  Where   *)
(* two positions are exactly the tolerance apart the rounding of the       *)
(* single-precision floats decides the comparison, and the model computes  *)
(* that rounding.  millis() and the last* time stamps are 32-bit unsigned; *)
(* every read of millis() inside a pass may return a later value.          *)
(***************************************************************************)
EXTENDS Integers, Sequences, FiniteSets, TLC

VARIABLES
    clockState,   \* struct ClockState clockState
    gps,          \* the parsed fields of the Adafruit_GPS object
    pins,         \* the level of each input pin
    millis,       \* millis()
    display,      \* what the last step wrote to the display driver
    blink,        \* the static locals of showNoGPSIndicator
    pc,           \* "setup" before setup() has run, "delay" in its wait,
                  \* "loop" after
    ran,          \* the handlers the last step executed
    ticks,        \* number of clock advances so far
    arg,          \* inputs of a directly called function
    ret           \* result of a directly called function

vars == <<clockState, gps, pins, millis, display, blink, pc, ran,
          ticks, arg, ret>>

-----------------------------------------------------------------------------
(* Configuration constants                                                 *)

TIME_24_HOUR == FALSE
DISPLAY_UPDATE_MS == 100
TIMEZONE_CHECK_MS == 1000
LOCATION_CHECK_MS == 30000
LOCATION_TOLERANCE == 10
BLINK_MS == 500
STARTUP_DELAY_MS == 1000
STARTUP_PATTERN == 8888

Byte(x) == x % 256

\* uint32_t values are kept as two 16-bit halves (hi * 2^16 + lo), so that
\* millis() arithmetic wraps at 2^32 exactly as in the firmware.
Half == 256 * 256
U32(hi, lo) == [hi |-> hi, lo |-> lo]
Zero32 == U32(0, 0)
\* t + d for 0 <= d < 2^16 * 2^14, modulo 2^32
Add32(t, d) ==
    LET l == t.lo + d
    IN  U32((t.hi + (l \div Half)) % Half, l % Half)
\* mutant: a difference that does not wrap (0 when now is numerically below
\* last)
Elapsed_noWrap(now, last) ==
    IF now.hi < last.hi \/ (now.hi = last.hi /\ now.lo < last.lo)
    THEN Zero32
    ELSE LET l == now.lo - last.lo
             borrow == IF l < 0 THEN 1 ELSE 0
         IN  U32(now.hi - last.hi - borrow, l % Half)

\* now - last, modulo 2^32
Elapsed(now, last) ==
    LET l == now.lo - last.lo
        borrow == IF l < 0 THEN 1 ELSE 0
    IN  U32((now.hi - last.hi - borrow) % Half, l % Half)
\* t >= n for an interval 0 <= n < 2^16
AtLeast(t, n) == t.hi > 0 \/ t.lo >= n

Degrees(d) == d * 100

TimezoneTable ==
    << [name |-> "Pacific Standard",  abbreviation |-> "PST",  utcOffset |-> -8,
        observesDST |-> TRUE,  dstOffset |-> 1,
        minLat |-> Degrees(32), maxLat |-> Degrees(49),
        minLon |-> Degrees(-125), maxLon |-> Degrees(-114)],
       [name |-> "Mountain Standard", abbreviation |-> "MST",  utcOffset |-> -7,
        observesDST |-> TRUE,  dstOffset |-> 1,
        minLat |-> Degrees(31), maxLat |-> Degrees(49),
        minLon |-> Degrees(-114), maxLon |-> Degrees(-104)],
       [name |-> "Central Standard",  abbreviation |-> "CST",  utcOffset |-> -6,
        observesDST |-> TRUE,  dstOffset |-> 1,
        minLat |-> Degrees(25), maxLat |-> Degrees(49),
        minLon |-> Degrees(-104), maxLon |-> Degrees(-87)],
       [name |-> "Eastern Standard",  abbreviation |-> "EST",  utcOffset |-> -5,
        observesDST |-> TRUE,  dstOffset |-> 1,
        minLat |-> Degrees(24), maxLat |-> Degrees(49),
        minLon |-> Degrees(-87), maxLon |-> Degrees(-67)],
       [name |-> "Atlantic Standard", abbreviation |-> "AST",  utcOffset |-> -4,
        observesDST |-> FALSE, dstOffset |-> 0,
        minLat |-> Degrees(44), maxLat |-> Degrees(60),
        minLon |-> Degrees(-70), maxLon |-> Degrees(-53)],
       [name |-> "Hawaii Standard",   abbreviation |-> "HST",  utcOffset |-> -10,
        observesDST |-> FALSE, dstOffset |-> 0,
        minLat |-> Degrees(18), maxLat |-> Degrees(23),
        minLon |-> Degrees(-161), maxLon |-> Degrees(-154)],
       [name |-> "Alaska Standard",   abbreviation |-> "AKST", utcOffset |-> -9,
        observesDST |-> TRUE,  dstOffset |-> 1,
        minLat |-> Degrees(54), maxLat |-> Degrees(72),
        minLon |-> Degrees(-180), maxLon |-> Degrees(-130)],
       [name |-> "UTC",               abbreviation |-> "UTC",  utcOffset |-> 0,
        observesDST |-> FALSE, dstOffset |-> 0,
        minLat |-> Degrees(-90), maxLat |-> Degrees(90),
        minLon |-> Degrees(-180), maxLon |-> Degrees(180)] >>

NUM_TIMEZONES == Len(TimezoneTable)

\* TIMEZONES[i] with the source's 0-based index
TIMEZONES == [i \in 0..(NUM_TIMEZONES - 1) |-> TimezoneTable[i + 1]]

-----------------------------------------------------------------------------
(* Time composition                                                        *)

RECURSIVE WhileNegative(_)
WhileNegative(hours) ==
    IF hours < 0 THEN WhileNegative(hours + 24) ELSE hours

RECURSIVE WhileOverflow(_)
WhileOverflow(hours) ==
    IF hours >= 24 THEN WhileOverflow(hours - 24) ELSE hours

\* mutant: the single-step day-boundary conditionals of the original sketch
normalizeHours_singleStep(hours) ==
    LET a == IF hours < 0 THEN 24 + hours ELSE hours
    IN  IF a > 23 THEN 24 - a ELSE a

\* mutant: the body of the first loop leaves the hour as it is
NegativeBody_noProgress(hours) == hours

\* the bodies of the two loops, for stepping through them one test at a time
NegativeBody(hours) == hours + 24

OverflowBody(hours) == hours - 24

normalizeHours(hours) ==
    WhileOverflow(WhileNegative(hours))

\* mutant: noon is taken for an afternoon hour
convertTo12Hour_noonWraps(hours24) ==
    IF hours24 = 0 THEN 12
    ELSE IF hours24 >= 12 THEN hours24 - 12
    ELSE hours24

convertTo12Hour(hours24) ==
    IF hours24 = 0 THEN 12
    ELSE IF hours24 > 12 THEN hours24 - 12
    ELSE hours24

\* The array is read without a bound check.  A read past its end is
\* undefined in the code and has no value here either: TIMEZONES is a
\* function on 0..NUM_TIMEZONES-1 only.
getCurrentTimezone(st) == TIMEZONES[st.currentTimezoneIndex]

getTimezoneOffset(st) == getCurrentTimezone(st).utcOffset

\* mutant: a fixed DST hour whatever the table entry says
getDSTOffset_fixedHour(st) ==
    IF st.isDSTActive THEN 1 ELSE 0

getDSTOffset(st) ==
    LET tz == getCurrentTimezone(st)
    IN  IF ~tz.observesDST THEN 0
        ELSE IF st.isDSTActive THEN tz.dstOffset ELSE 0

calculateTimezoneOffset(st) == getTimezoneOffset(st) + getDSTOffset(st)

\* the world-clock conversion: minutes since midnight, shifted and wrapped
MINUTES_PER_DAY == 24 * 60

RECURSIVE WhileNegativeMinutes(_)
WhileNegativeMinutes(totalMinutes) ==
    IF totalMinutes < 0
    THEN WhileNegativeMinutes(totalMinutes + MINUTES_PER_DAY)
    ELSE totalMinutes

RECURSIVE WhileOverflowMinutes(_)
WhileOverflowMinutes(totalMinutes) ==
    IF totalMinutes >= MINUTES_PER_DAY
    THEN WhileOverflowMinutes(totalMinutes - MINUTES_PER_DAY)
    ELSE totalMinutes

\* mutant: the conversion never adds the DST hour
convertUTCToTimezone_ignoresUseDST(utcHour, utcMinute, timezoneIndex, localHour, localMinute, useDST) ==
    IF timezoneIndex >= NUM_TIMEZONES
    THEN [localHour |-> localHour, localMinute |-> localMinute]
    ELSE LET tz == TIMEZONES[timezoneIndex]
             totalMinutes == WhileOverflowMinutes(WhileNegativeMinutes(
                                 utcHour * 60 + utcMinute + tz.utcOffset * 60))
         IN  [localHour   |-> totalMinutes \div 60,
              localMinute |-> totalMinutes % 60]

\* localHour and localMinute are reference parameters: the result is their
\* value after the call
convertUTCToTimezone(utcHour, utcMinute, timezoneIndex, localHour, localMinute, useDST) ==
    IF timezoneIndex >= NUM_TIMEZONES
    THEN [localHour |-> localHour, localMinute |-> localMinute]
    ELSE LET tz == TIMEZONES[timezoneIndex]
             offset == tz.utcOffset
                       + (IF useDST /\ tz.observesDST THEN tz.dstOffset ELSE 0)
             totalMinutes == WhileOverflowMinutes(WhileNegativeMinutes(
                                 utcHour * 60 + utcMinute + offset * 60))
         IN  [localHour   |-> totalMinutes \div 60,
              localMinute |-> totalMinutes % 60]

\* mutant: the composition without the day-boundary handling
updateTimeFromGPS_noNormalize(st, g) ==
    LET totalOffset   == calculateTimezoneOffset(st)
        adjustedHours == g.hour + totalOffset
    IN  [st EXCEPT !.hours = Byte(adjustedHours),
                   !.minutes = g.minute,
                   !.seconds = g.seconds]

\* mutant: the composition forgets the DST hour
updateTimeFromGPS_noDst(st, g) ==
    LET totalOffset   == getTimezoneOffset(st)
        adjustedHours == normalizeHours(g.hour + totalOffset)
    IN  [st EXCEPT !.hours = Byte(adjustedHours),
                   !.minutes = g.minute,
                   !.seconds = g.seconds]

updateTimeFromGPS(st, g) ==
    LET totalOffset   == calculateTimezoneOffset(st)
        adjustedHours == normalizeHours(g.hour + totalOffset)
    IN  [st EXCEPT !.hours = Byte(adjustedHours),
                   !.minutes = g.minute,
                   !.seconds = g.seconds]

-----------------------------------------------------------------------------
(* DST calculation; every local is a uint8_t                               *)

\* mutant: the case of the 1st being a Sunday is not told apart
calculateFirstSunday_noSundayCase(month, year) ==
    LET fullYear      == Byte(2000 + year)
        adjustedMonth == IF month < 3 THEN Byte(month + 12) ELSE month
        adjustedYear  == IF month < 3 THEN Byte(fullYear - 1) ELSE fullYear
        zeller        == (1 + ((13 * (adjustedMonth + 1)) \div 5) + adjustedYear
                          + (adjustedYear \div 4) - (adjustedYear \div 100)
                          + (adjustedYear \div 400)) % 7
        dayOfWeek     == (zeller + 5) % 7
    IN  8 - dayOfWeek

calculateFirstSunday(month, year) ==
    LET fullYear      == Byte(2000 + year)
        adjustedMonth == IF month < 3 THEN Byte(month + 12) ELSE month
        adjustedYear  == IF month < 3 THEN Byte(fullYear - 1) ELSE fullYear
        zeller        == (1 + ((13 * (adjustedMonth + 1)) \div 5) + adjustedYear
                          + (adjustedYear \div 4) - (adjustedYear \div 100)
                          + (adjustedYear \div 400)) % 7
        dayOfWeek     == (zeller + 5) % 7
    IN  IF dayOfWeek = 0 THEN 1 ELSE 8 - dayOfWeek

calculateSecondSunday(month, year) ==
    Byte(calculateFirstSunday(month, year) + 7)

\* mutant: the date rule applied without asking whether the zone observes DST
calculateDSTAuto_noObservesCheck(st, g) ==
    IF ~st.gpsFixValid THEN FALSE
    ELSE LET month == g.month
             day   == g.day
             year  == g.year
         IN  IF month < 3 \/ month > 11 THEN FALSE
             ELSE IF month > 3 /\ month < 11 THEN TRUE
             ELSE LET dstStartDay == calculateSecondSunday(3, year)
                      dstEndDay   == calculateFirstSunday(11, year)
                  IN  IF month = 3 THEN day >= dstStartDay
                      ELSE IF month = 11 THEN day < dstEndDay
                      ELSE FALSE

\* mutant: the summer test starts one month late
calculateDSTAuto_aprilExcluded(st, g) ==
    IF ~st.gpsFixValid THEN FALSE
    ELSE IF ~getCurrentTimezone(st).observesDST THEN FALSE
    ELSE LET month == g.month
             day   == g.day
             year  == g.year
         IN  IF month < 3 \/ month > 11 THEN FALSE
             ELSE IF month > 4 /\ month < 11 THEN TRUE
             ELSE LET dstStartDay == calculateSecondSunday(3, year)
                      dstEndDay   == calculateFirstSunday(11, year)
                  IN  IF month = 3 THEN day >= dstStartDay
                      ELSE IF month = 11 THEN day < dstEndDay
                      ELSE FALSE

calculateDSTAuto(st, g) ==
    IF ~st.gpsFixValid THEN FALSE
    ELSE IF ~getCurrentTimezone(st).observesDST THEN FALSE
    ELSE LET month == g.month
             day   == g.day
             year  == g.year
         IN  IF month < 3 \/ month > 11 THEN FALSE
             ELSE IF month > 3 /\ month < 11 THEN TRUE
             ELSE LET dstStartDay == calculateSecondSunday(3, year)
                      dstEndDay   == calculateFirstSunday(11, year)
                  IN  IF month = 3 THEN day >= dstStartDay
                      ELSE IF month = 11 THEN day < dstEndDay
                      ELSE FALSE

-----------------------------------------------------------------------------
(* Geographic lookup                                                       *)

\* mutant: the box test with open lower edges
InBox_openEdges(tz, lat, lon) ==
    /\ lat > tz.minLat /\ lat <= tz.maxLat
    /\ lon > tz.minLon /\ lon <= tz.maxLon

InBox(tz, lat, lon) ==
    /\ lat >= tz.minLat /\ lat <= tz.maxLat
    /\ lon >= tz.minLon /\ lon <= tz.maxLon

RECURSIVE ScanFrom(_, _, _)
ScanFrom(i, lat, lon) ==
    IF i < NUM_TIMEZONES - 1
    THEN IF InBox(TIMEZONES[i], lat, lon) THEN i ELSE ScanFrom(i + 1, lat, lon)
    ELSE NUM_TIMEZONES - 1

detectTimezoneFromLocation(lat, lon) == ScanFrom(0, lat, lon)

-----------------------------------------------------------------------------
(* State after construction                                                *)

ClockState0 ==
    [lastUpdate |-> Zero32, lastTimezoneCheck |-> Zero32,
     lastLocationCheck |-> Zero32,
     colonState |-> FALSE, gpsFixValid |-> FALSE,
     hours |-> 0, minutes |-> 0, seconds |-> 0,
     currentTimezoneIndex |-> 0, isDSTActive |-> FALSE,
     dstSwitchState |-> FALSE, timezoneSwitchState |-> 0,
     autoModeEnabled |-> TRUE,
     lastLat |-> 0, lastLon |-> 0, locationChanged |-> FALSE]

GPS0 ==
    [fix |-> FALSE, hour |-> 0, minute |-> 0, seconds |-> 0,
     day |-> 0, month |-> 0, year |-> 0,
     latitudeDegrees |-> 0, longitudeDegrees |-> 0]

\* no write to the display driver
\* zeroed: the digit positions overwritten by writeDigitNum(position, 0)
Display0 == [kind |-> "none", value |-> 0, colon |-> FALSE, zeroed |-> {}]
Blink0   == [lastBlink |-> Zero32, blinkState |-> FALSE]

Levels == {"LOW", "HIGH"}
PinNames == {"DST_PIN", "TIMEZONE_PIN_A", "TIMEZONE_PIN_B", "TIMEZONE_PIN_C",
             "AUTO_MODE_PIN"}

digitalRead(p, pin) == p[pin]

\* A handler's working copy of clockState carries the set of handlers run.
Enter(st) == st @@ [ran |-> {}]

\* Inside loop() the working copy also carries the clock: now is the value
\* the next call of millis() returns, read the value the last call returned,
\* reads the values all calls so far returned, and drift the time the clock
\* advances from one call to the next.
EnterAt(st, now, drift) ==
    [lastUpdate |-> st.lastUpdate, lastTimezoneCheck |-> st.lastTimezoneCheck,
     lastLocationCheck |-> st.lastLocationCheck,
     colonState |-> st.colonState, gpsFixValid |-> st.gpsFixValid,
     hours |-> st.hours, minutes |-> st.minutes, seconds |-> st.seconds,
     currentTimezoneIndex |-> st.currentTimezoneIndex,
     isDSTActive |-> st.isDSTActive,
     dstSwitchState |-> st.dstSwitchState,
     timezoneSwitchState |-> st.timezoneSwitchState,
     autoModeEnabled |-> st.autoModeEnabled,
     lastLat |-> st.lastLat, lastLon |-> st.lastLon,
     locationChanged |-> st.locationChanged,
     ran |-> {}, now |-> now, read |-> now, reads |-> <<>>, drift |-> drift]

\* a call of millis()
Read(st) ==
    [st EXCEPT !.read = st.now, !.reads = Append(@, st.now),
               !.now = Add32(st.now, st.drift)]
Mark(st, h) == [st EXCEPT !.ran = @ \cup {h}]
Fields(st) ==
    [lastUpdate |-> st.lastUpdate, lastTimezoneCheck |-> st.lastTimezoneCheck,
     lastLocationCheck |-> st.lastLocationCheck,
     colonState |-> st.colonState, gpsFixValid |-> st.gpsFixValid,
     hours |-> st.hours, minutes |-> st.minutes, seconds |-> st.seconds,
     currentTimezoneIndex |-> st.currentTimezoneIndex,
     isDSTActive |-> st.isDSTActive,
     dstSwitchState |-> st.dstSwitchState,
     timezoneSwitchState |-> st.timezoneSwitchState,
     autoModeEnabled |-> st.autoModeEnabled,
     lastLat |-> st.lastLat, lastLon |-> st.lastLon,
     locationChanged |-> st.locationChanged]

Abs(x) == IF x > 0 THEN x ELSE -x

\* the element of a one-element set; Only({e(x) : x \in {v}}) is
\* LET x == v IN e(x) with v computed once
Only(S) == CHOOSE x \in S : TRUE

-----------------------------------------------------------------------------
(* Manual mode: the selector and DST switches                              *)

readTimezoneSwitches(p) ==
      (IF digitalRead(p, "TIMEZONE_PIN_A") = "LOW" THEN 1 ELSE 0)
    + (IF digitalRead(p, "TIMEZONE_PIN_B") = "LOW" THEN 2 ELSE 0)
    + (IF digitalRead(p, "TIMEZONE_PIN_C") = "LOW" THEN 4 ELSE 0)

\* mutant: the selector value is taken for a one-based table index
updateTimezoneSettings_oneBased(st, p) ==
    IF st.autoModeEnabled THEN st
    ELSE LET newTimezoneState == readTimezoneSwitches(p)
             newDSTState      == (digitalRead(p, "DST_PIN") = "LOW")
         IN  Only({ Mark(IF newDSTState # a.dstSwitchState
                         THEN [a EXCEPT !.dstSwitchState = newDSTState,
                                        !.isDSTActive = newDSTState]
                         ELSE a,
                         "updateTimezoneSettings")
                    : a \in {IF newTimezoneState # st.timezoneSwitchState
                             THEN [st EXCEPT
                                      !.timezoneSwitchState = newTimezoneState,
                                      !.currentTimezoneIndex =
                                          newTimezoneState + 1]
                             ELSE st} })

updateTimezoneSettings(st, p) ==
    IF st.autoModeEnabled THEN st
    ELSE LET newTimezoneState == readTimezoneSwitches(p)
             newDSTState      == (digitalRead(p, "DST_PIN") = "LOW")
         IN  Only({ Mark(IF newDSTState # a.dstSwitchState
                         THEN [a EXCEPT !.dstSwitchState = newDSTState,
                                        !.isDSTActive = newDSTState]
                         ELSE a,
                         "updateTimezoneSettings")
                    : a \in {IF newTimezoneState # st.timezoneSwitchState
                             THEN [st EXCEPT
                                      !.timezoneSwitchState = newTimezoneState,
                                      !.currentTimezoneIndex =
                                          newTimezoneState % NUM_TIMEZONES]
                             ELSE st} })

\* millis() is read for the test (line 457) and again for the stamp (459)
updateTimezoneIfNeeded(st, p) ==
    Only({ IF AtLeast(Elapsed(s0.read, s0.lastTimezoneCheck), TIMEZONE_CHECK_MS)
           THEN Only({ [a EXCEPT !.lastTimezoneCheck = a.read]
                       : a \in {Read(updateTimezoneSettings(s0, p))} })
           ELSE s0
           : s0 \in {Read(st)} })

-----------------------------------------------------------------------------
(* Auto mode: the geographic resolver                                      *)

\* what the lookup branch does with the index the table scan returned
adoptTimezone(st, g, newTimezoneIndex) ==
    Only({ Mark([a EXCEPT !.lastLat = g.latitudeDegrees,
                          !.lastLon = g.longitudeDegrees,
                          !.locationChanged = FALSE],
                "detectTimezoneFromLocation")
           : a \in {IF newTimezoneIndex # st.currentTimezoneIndex
                    THEN Only({ IF getCurrentTimezone(s1).observesDST
                                THEN Mark([s1 EXCEPT !.isDSTActive =
                                                  calculateDSTAuto(s1, g)],
                                          "calculateDSTAuto")
                                ELSE [s1 EXCEPT !.isDSTActive = FALSE]
                                : s1 \in {[st EXCEPT !.currentTimezoneIndex =
                                                        newTimezoneIndex]} })
                    ELSE st} })

resolveLocation(st, g) ==
    adoptTimezone(st, g,
        detectTimezoneFromLocation(g.latitudeDegrees, g.longitudeDegrees))

\* lines 369-379: the mode switch is looked at after the lookup
checkModeSwitch(st, p) ==
    LET newAutoMode == (digitalRead(p, "AUTO_MODE_PIN") = "LOW")
    IN  IF newAutoMode # st.autoModeEnabled
        THEN Only({ IF ~b.autoModeEnabled
                    THEN updateTimezoneSettings(b, p)
                    ELSE b
                    : b \in {[st EXCEPT !.autoModeEnabled = newAutoMode]} })
        ELSE st

\* mutant: the lookup waits for the interval even when the position moved
updateLocationIfNeeded_intervalOnly(st, g, p) ==
    IF ~st.gpsFixValid THEN st
    ELSE Only({ Only({ checkModeSwitch(a, p)
        : a  \in {IF AtLeast(Elapsed(s0.read, s0.lastLocationCheck),
                             LOCATION_CHECK_MS)
                  THEN Only({ [r EXCEPT !.lastLocationCheck = r.read]
                              : r \in {Read(IF \/ s0.locationChanged
                                               \/ s0.lastLat = 0
                                            THEN resolveLocation(s0, g)
                                            ELSE s0)} })
                  ELSE s0} })
        : s0 \in {Read(st)} })

\* mutant: auto mode lets a closed DST switch force DST on
updateLocationIfNeeded_readsDstSwitch(st, g, p) ==
    LET r == updateLocationIfNeeded_intervalOnly(
                 [st EXCEPT !.lastLocationCheck =
                      IF st.locationChanged THEN Zero32 ELSE @], g, p)
    IN  IF r.autoModeEnabled /\ digitalRead(p, "DST_PIN") = "LOW"
        THEN [r EXCEPT !.isDSTActive = TRUE]
        ELSE r

\* millis() is read for the test (line 333) and again for the stamp (366)
updateLocationIfNeeded(st, g, p) ==
    IF ~st.gpsFixValid THEN st
    ELSE Only({ Only({ checkModeSwitch(a, p)
        : a  \in {IF \/ AtLeast(Elapsed(s0.read, s0.lastLocationCheck),
                                LOCATION_CHECK_MS)
                     \/ s0.locationChanged
                  THEN Only({ [r EXCEPT !.lastLocationCheck = r.read]
                              : r \in {Read(IF \/ s0.locationChanged
                                               \/ s0.lastLat = 0
                                            THEN resolveLocation(s0, g)
                                            ELSE s0)} })
                  ELSE s0} })
        : s0 \in {Read(st)} })

-----------------------------------------------------------------------------
(* Positions are single-precision floats.  Float32(h) is the float nearest *)
(* to h hundredths of a degree, as mantissa m and scale s: m * 2^-s with   *)
(* 2^23 <= |m| < 2^24, ties rounded to the even mantissa.                  *)

F32_MANTISSA_MIN == 2^23

RECURSIVE ScaleUp(_, _, _)
ScaleUp(q, r, s) ==
    IF q < F32_MANTISSA_MIN
    THEN ScaleUp(2 * q + (2 * r) \div 100, (2 * r) % 100, s + 1)
    ELSE [q |-> q, r |-> r, s |-> s]

\* q + r/den rounded to the nearest integer, ties to even
RoundEven(q, r, den) ==
    IF 2 * r > den \/ (2 * r = den /\ q % 2 = 1) THEN q + 1 ELSE q

Float32(h) ==
    IF h = 0 THEN [m |-> 0, s |-> 0]
    ELSE LET n == ScaleUp(Abs(h) \div 100, Abs(h) % 100, 0)
             m == RoundEven(n.q, n.r, 100)
         IN  [m |-> IF h < 0 THEN -m ELSE m, s |-> n.s]

\* abs(x - y) > Config::LOCATION_TOLERANCE on floats.  The conversions and
\* the subtraction are each off by less than 2^-16 degree, so the hundredths
\* decide unless they are exactly the tolerance apart; there the difference
\* of the two floats, rounded to a float, is compared with the float 0.1.
ExceedsTolerance(x, y) ==
    IF Abs(x - y) # LOCATION_TOLERANCE
    THEN Abs(x - y) > LOCATION_TOLERANCE
    ELSE LET fx == Float32(x)
             fy == Float32(y)
             t  == Float32(LOCATION_TOLERANCE)
             s  == IF fx.s > fy.s THEN fx.s ELSE fy.s
             d  == Abs(fx.m * 2^(s - fx.s) - fy.m * 2^(s - fy.s))
             m  == IF s <= t.s
                   THEN d * 2^(t.s - s)
                   ELSE RoundEven(d \div 2^(s - t.s), d % 2^(s - t.s),
                                  2^(s - t.s))
         IN  m > t.m

-----------------------------------------------------------------------------
(* GPS input                                                               *)

\* gps.parse: a sentence that fails its checksum leaves the fields alone
parse(g, rx) ==
    IF rx # <<>> /\ Head(rx).parseOk THEN Head(rx).data ELSE g

updateGPSData(st, g, rx) ==
    IF rx # <<>> /\ Head(rx).parseOk
    THEN Only({
             IF a.gpsFixValid
             THEN Only({ IF \/ ExceedsTolerance(g.latitudeDegrees, b.lastLat)
                            \/ ExceedsTolerance(g.longitudeDegrees, b.lastLon)
                         THEN [b EXCEPT !.locationChanged = TRUE]
                         ELSE b
                         : b \in {Mark(updateTimeFromGPS(a, g),
                                       "updateTimeFromGPS")} })
             ELSE a
             : a \in {[st EXCEPT !.gpsFixValid = g.fix]} })
    ELSE st

-----------------------------------------------------------------------------
(* Display                                                                 *)

\* millis() is read for the test (line 288) and again for the stamp (290);
\* now is the value the next call of millis() returns
showNoGPSIndicator(st, bl) ==
    LET s0 == Read(st)
    IN  IF AtLeast(Elapsed(s0.read, bl.lastBlink), BLINK_MS)
        THEN LET newBlink == ~bl.blinkState
                 s1 == Read(s0)
             IN  [blink   |-> [lastBlink |-> s1.read, blinkState |-> newBlink],
                  display |-> IF newBlink
                              THEN [kind |-> "zero", value |-> 0,
                                    colon |-> TRUE, zeroed |-> {}]
                              ELSE [kind |-> "clear", value |-> 0,
                                    colon |-> FALSE, zeroed |-> {}],
                  ran     |-> {"updateDisplay", "showNoGPSIndicator"},
                  now     |-> s1.now]
        ELSE [blink |-> bl, display |-> Display0,
              ran |-> {"updateDisplay", "showNoGPSIndicator"},
              now |-> s0.now]

\* updateDisplay as built with Config::TIME_24_HOUR = time24
updateDisplayWith(time24, st, bl) ==
    IF ~st.gpsFixValid THEN showNoGPSIndicator(st, bl)
    ELSE LET displayHours == IF ~time24 THEN convertTo12Hour(st.hours)
                             ELSE st.hours
             displayValue == displayHours * 100 + st.minutes
             zeroed       == IF time24 /\ st.hours < 10
                             THEN {1} \cup (IF st.minutes < 10 THEN {3} ELSE {})
                             ELSE {}
             showColon    == (st.seconds % 2 = 0)
         IN  [blink   |-> bl,
              display |-> [kind |-> "time", value |-> displayValue,
                           colon |-> showColon, zeroed |-> zeroed],
              ran     |-> {"updateDisplay", "print"},
              now     |-> st.now]

\* mutant: the refresh prints the composed time without looking at the fix
updateDisplay_noFixCheck(st, bl) ==
    updateDisplayWith(TIME_24_HOUR, [st EXCEPT !.gpsFixValid = TRUE], bl)

updateDisplay(st, bl) == updateDisplayWith(TIME_24_HOUR, st, bl)

-----------------------------------------------------------------------------
(* Inputs                                                                  *)

MaxTicks == 1

Deltas == {LOCATION_CHECK_MS}

\* by how much the clock advances between two calls of millis() in a pass
Drifts == {0, 1}

Sentence(ok, fix, h, m, s, day, month, year, lat, lon) ==
    [parseOk |-> ok,
     data |-> [fix |-> fix, hour |-> h, minute |-> m, seconds |-> s,
               day |-> day, month |-> month, year |-> year,
               latitudeDegrees |-> lat, longitudeDegrees |-> lon]]

\* Pacific, 0.05 degree west of the Pacific/Mountain edge
PacificEdge  == Sentence(TRUE, TRUE, 14, 30, 15, 4, 7, 24, 4000, -11405)
\* 0.08 degree further east: inside the Mountain box only
MountainEdge == Sentence(TRUE, TRUE, 14, 30, 16, 4, 7, 24, 4000, -11397)
London       == Sentence(TRUE, TRUE, 12, 5, 0, 3, 11, 24, 5150, -12)
NoFix        == Sentence(TRUE, FALSE, 0, 0, 0, 0, 0, 0, 0, 0)
Garbled      == Sentence(FALSE, TRUE, 9, 9, 9, 9, 9, 9, 900, 900)

Sentences == {PacificEdge, MountainEdge, London, NoFix, Garbled}

Received == {<<>>} \cup {<<s>> : s \in Sentences}

\* the selector settings the model turns the switch to, each as pin levels
\* (a closed switch pulls its pin LOW)
SelectorSettings == {0, 7}

SelectorPins(v) ==
    [TIMEZONE_PIN_A |-> IF v % 2 = 1 THEN "LOW" ELSE "HIGH",
     TIMEZONE_PIN_B |-> IF (v \div 2) % 2 = 1 THEN "LOW" ELSE "HIGH",
     TIMEZONE_PIN_C |-> IF (v \div 4) % 2 = 1 THEN "LOW" ELSE "HIGH"]

PinSettings ==
    {SelectorPins(v) @@ [DST_PIN |-> d, AUTO_MODE_PIN |-> a] :
        v \in SelectorSettings, d \in Levels, a \in Levels}

NoCall == [fn |-> "none"]

-----------------------------------------------------------------------------
(* The firmware as a state machine                                         *)

Init ==
    /\ clockState = ClockState0
    /\ gps = GPS0
    /\ pins \in PinSettings
    /\ millis = Zero32
    /\ display = Display0
    /\ blink = Blink0
    /\ pc = "setup"
    /\ ran = {}
    /\ ticks = 0
    /\ arg = NoCall
    /\ ret = NoCall

initializePins(st, p) ==
    LET a == [st EXCEPT !.autoModeEnabled =
                            (digitalRead(p, "AUTO_MODE_PIN") = "LOW")]
    IN  IF ~a.autoModeEnabled THEN updateTimezoneSettings(a, p) ELSE a

\* setup() up to the wait in initializeDisplay: the startup pattern is on the
\* display
SetupStart ==
    /\ pc = "setup"
    /\ display' = [kind |-> "startup", value |-> STARTUP_PATTERN, colon |-> TRUE,
                   zeroed |-> {}]
    /\ ran' = {"setup"}
    /\ pc' = "delay"
    /\ UNCHANGED <<clockState, gps, pins, millis, blink, ticks, arg, ret>>

\* the rest of setup(): delay(1000) is over, the display is cleared, then
\* initializeGPS and initializePins
SetupFinish ==
    /\ pc = "delay"
    /\ LET s == initializePins(Enter(clockState), pins)
       IN  /\ clockState' = Fields(s)
           /\ ran' = s.ran \cup {"setup"}
    /\ display' = [kind |-> "clear", value |-> 0, colon |-> FALSE,
                   zeroed |-> {}]
    /\ millis' = Add32(millis, STARTUP_DELAY_MS)
    /\ pc' = "loop"
    /\ UNCHANGED <<gps, pins, blink, ticks, arg, ret>>

Setup == SetupStart \/ SetupFinish

\* lines 118-121: millis() is read for the test, and again for the stamp
\* after updateDisplay has returned.  millis is the value of the last call,
\* reads the values of the calls up to the test of line 118.
refreshIfDue(st, bl) ==
    Only({ Only({
        LET due   == AtLeast(Elapsed(s3.read, s3.lastUpdate), DISPLAY_UPDATE_MS)
            stamp == d.now
        IN  [clockState |-> IF due THEN [Fields(s3) EXCEPT !.lastUpdate = stamp]
                            ELSE Fields(s3),
             display    |-> IF due THEN d.display ELSE Display0,
             blink      |-> IF due THEN d.blink ELSE bl,
             ran        |-> {"loop"} \cup s3.ran
                            \cup (IF due THEN d.ran ELSE {}),
             millis     |-> IF due THEN stamp ELSE s3.read,
             reads      |-> s3.reads]
        : d  \in {updateDisplay(s3, bl)} })
        : s3 \in {Read(st)} })

\* one pass of loop() on clockState st, GPS fields g0, pin levels p and the
\* statics bl, entered at time now with the clock advancing by drift from
\* one call of millis() to the next; rx is the sentence the interrupt-driven
\* reader has completed since the last pass (<<>> when
\* gps.newNMEAreceived() is false)
loopPass(st, g0, p, now, bl, rx, drift) ==
    Only({ Only({ Only({
        [gps |-> g, clockState |-> r.clockState, display |-> r.display,
         blink |-> r.blink, ran |-> r.ran, millis |-> r.millis,
         reads |-> r.reads]
        : r  \in {refreshIfDue(IF s1.autoModeEnabled
                               THEN updateLocationIfNeeded(s1, g, p)
                               ELSE updateTimezoneIfNeeded(s1, p), bl)} })
        : s1 \in {updateGPSData(EnterAt(st, now, drift), g, rx)} })
        : g  \in {parse(g0, rx)} })

\* the clock advances inside a pass a bounded number of times; observed
\* tells whether the values millis() returned in the pass are kept in ret
LoopAt(rx, drift, maxTicks, observed) ==
    /\ pc = "loop"
    /\ drift > 0 => ticks < maxTicks
    /\ \E r \in {loopPass(clockState, gps, pins, millis, blink, rx, drift)} :
           /\ gps' = r.gps
           /\ clockState' = r.clockState
           /\ display' = r.display
           /\ blink' = r.blink
           /\ ran' = r.ran
           /\ millis' = r.millis
           /\ ret' = IF observed THEN [fn |-> "loop", reads |-> r.reads]
                     ELSE ret
    /\ ticks' = IF drift > 0 THEN ticks + 1 ELSE ticks
    /\ UNCHANGED <<pins, pc, arg>>

Loop(rx) == \E drift \in Drifts : LoopAt(rx, drift, MaxTicks, FALSE)

\* somebody flips the DST switch or the mode switch
SetPin(pin) ==
    /\ pc \in {"delay", "loop"}
    /\ pins' = [pins EXCEPT ![pin] = IF @ = "LOW" THEN "HIGH" ELSE "LOW"]
    /\ ran' = {}
    /\ display' = Display0
    /\ UNCHANGED <<clockState, gps, millis, blink, pc, ticks, arg, ret>>

\* time passes
Tick(d) ==
    /\ pc = "loop"
    /\ ticks < MaxTicks
    /\ millis' = Add32(millis, d)
    /\ ticks' = ticks + 1
    /\ ran' = {}
    /\ display' = Display0
    /\ UNCHANGED <<clockState, gps, pins, blink, pc, arg, ret>>

\* somebody turns the timezone selector to another setting
SetSelector(v) ==
    /\ pc \in {"delay", "loop"}
    /\ v # readTimezoneSwitches(pins)
    /\ pins' = SelectorPins(v) @@ pins
    /\ ran' = {}
    /\ display' = Display0
    /\ UNCHANGED <<clockState, gps, millis, blink, pc, ticks, arg, ret>>

Next ==
    \/ Setup
    \/ \E rx \in Received : Loop(rx)
    \/ \E pin \in {"DST_PIN", "AUTO_MODE_PIN"} : SetPin(pin)
    \/ \E v \in SelectorSettings : SetSelector(v)
    \/ \E d \in Deltas : Tick(d)

Spec == Init /\ [][Next]_vars

\* The Arduino runtime calls loop() again and again for ever.
LoopPass == \E rx \in Received : Loop(rx)

FairSpec == Init /\ [][Next]_vars /\ WF_vars(Setup) /\ WF_vars(LoopPass)

\* The same firmware switched on 0.05 degree north and east of 0N 0E, within
\* LOCATION_TOLERANCE of the initial lastLat/lastLon
NearOrigin == Sentence(TRUE, TRUE, 14, 30, 15, 4, 7, 24, 5, 5)

ReceivedNearOrigin == {<<>>, <<NearOrigin>>}

NextNearOrigin ==
    \/ Setup
    \/ \E rx \in ReceivedNearOrigin : Loop(rx)
    \/ \E pin \in {"DST_PIN", "AUTO_MODE_PIN"} : SetPin(pin)
    \/ \E v \in SelectorSettings : SetSelector(v)
    \/ \E d \in Deltas : Tick(d)

SpecNearOrigin == Init /\ [][NextNearOrigin]_vars

-----------------------------------------------------------------------------
(* Direct calls of single functions: Init draws the inputs, the Call       *)
(* action applies the function once and records the result in ret.         *)

CallBase ==
    /\ millis = Zero32
    /\ display = Display0
    /\ blink = Blink0
    /\ pc = "call"
    /\ ran = {}
    /\ ticks = 0
    /\ ret = NoCall

CallFrame == <<clockState, gps, pins, millis, display, blink, pc, ran, ticks,
               arg>>

AllHigh == [pin \in PinNames |-> "HIGH"]

\* normalizeHours on a UTC hour plus a total offset, and back
InitNormalize ==
    /\ CallBase
    /\ clockState = ClockState0 /\ gps = GPS0 /\ pins = AllHigh
    /\ arg \in {[fn |-> "normalizeHours", h |-> h, o |-> o] :
                   h \in 0..23, o \in -14..14}

CallNormalizeHours ==
    /\ pc = "call" /\ arg.fn = "normalizeHours" /\ ret = NoCall
    /\ ret' = [fn    |-> "normalizeHours",
               local |-> normalizeHours(arg.h + arg.o),
               back  |-> normalizeHours(normalizeHours(arg.h + arg.o) - arg.o)]
    /\ UNCHANGED CallFrame

SpecNormalize == InitNormalize /\ [][CallNormalizeHours]_vars

\* calculateDSTAuto on every date of 2000..2099 and on malformed dates (month
\* 0 and 13, day 0 and 32, bytes past the two-digit years), in every
\* timezone, with and without a fix
ProbeYears  == 0..100 \cup {255}
ProbeMonths == 0..13 \cup {255}
ProbeDays   == 0..32 \cup {255}

InitDST ==
    /\ CallBase
    /\ pins = AllHigh
    /\ arg = [fn |-> "calculateDSTAuto"]
    /\ \E f \in BOOLEAN, i \in 0..(NUM_TIMEZONES - 1),
          y \in ProbeYears, m \in ProbeMonths, d \in ProbeDays :
          /\ clockState = [ClockState0 EXCEPT !.gpsFixValid = f,
                                              !.currentTimezoneIndex = i]
          /\ gps = [GPS0 EXCEPT !.fix = f, !.year = y, !.month = m, !.day = d]

CallCalculateDSTAuto ==
    /\ pc = "call" /\ arg.fn = "calculateDSTAuto" /\ ret = NoCall
    /\ ret' = [fn |-> "calculateDSTAuto",
               value |-> calculateDSTAuto(clockState, gps)]
    /\ UNCHANGED CallFrame

SpecDST == InitDST /\ [][CallCalculateDSTAuto]_vars

\* detectTimezoneFromLocation on every box edge, one hundredth of a degree
\* either side of it, and some points far from every edge
EdgeLats == {TIMEZONES[i].minLat : i \in 0..(NUM_TIMEZONES - 2)}
            \cup {TIMEZONES[i].maxLat : i \in 0..(NUM_TIMEZONES - 2)}
EdgeLons == {TIMEZONES[i].minLon : i \in 0..(NUM_TIMEZONES - 2)}
            \cup {TIMEZONES[i].maxLon : i \in 0..(NUM_TIMEZONES - 2)}
ProbeLats == {e + k : e \in EdgeLats, k \in {-1, 0, 1}}
             \cup {Degrees(-90), Degrees(-33), 0, Degrees(40), Degrees(90)}
ProbeLons == {e + k : e \in EdgeLons \ {Degrees(-180)}, k \in {-1, 0, 1}}
             \cup {Degrees(-180), Degrees(-179), Degrees(-120), 0, Degrees(151),
                   Degrees(180)}

InitDetect ==
    /\ CallBase
    /\ clockState = ClockState0 /\ gps = GPS0 /\ pins = AllHigh
    /\ arg \in {[fn |-> "detectTimezoneFromLocation", lat |-> lat, lon |-> lon] :
                   lat \in ProbeLats, lon \in ProbeLons}

CallDetectTimezoneFromLocation ==
    /\ pc = "call" /\ arg.fn = "detectTimezoneFromLocation" /\ ret = NoCall
    /\ ret' = [fn |-> "detectTimezoneFromLocation",
               value |-> detectTimezoneFromLocation(arg.lat, arg.lon)]
    /\ UNCHANGED CallFrame

SpecDetect == InitDetect /\ [][CallDetectTimezoneFromLocation]_vars

\* One sentence with fix parsed by updateGPSData and then shown by
\* updateDisplay, nothing in between: every UTC hour, some minutes and seconds,
\* every timezone, DST flag on and off, 12-hour and 24-hour builds
ProbeMinutes == {0, 5, 30, 59}
ProbeSeconds == {0, 15}

InitRefresh ==
    /\ CallBase
    /\ gps = GPS0 /\ pins = AllHigh
    /\ \E i \in 0..(NUM_TIMEZONES - 1), dst \in BOOLEAN :
          clockState = [ClockState0 EXCEPT !.currentTimezoneIndex = i,
                                           !.isDSTActive = dst]
    /\ arg \in {[fn |-> "refresh", time24 |-> t,
                 rx |-> <<Sentence(TRUE, TRUE, h, m, sec, 4, 7, 24, 4000, -11405)>>] :
                   t \in BOOLEAN, h \in 0..23, m \in ProbeMinutes,
                   sec \in ProbeSeconds}

CallRefresh ==
    /\ pc = "call" /\ arg.fn = "refresh" /\ ret = NoCall
    /\ \E g \in {parse(gps, arg.rx)} :
       \E s1 \in {updateGPSData(EnterAt(clockState, millis, 0), g, arg.rx)} :
       \E d \in {updateDisplayWith(arg.time24, s1, blink)} :
          /\ gps' = g
          /\ clockState' = Fields(s1)
          /\ display' = d.display
          /\ blink' = d.blink
          /\ ran' = s1.ran \cup d.ran
          /\ ret' = [fn      |-> "refresh",
                     offset  |-> calculateTimezoneOffset(clockState),
                     hours   |-> s1.hours,
                     hours12 |-> convertTo12Hour(s1.hours),
                     display |-> d.display]
    /\ UNCHANGED <<pins, millis, pc, ticks, arg>>

SpecRefresh == InitRefresh /\ [][CallRefresh]_vars

\* calculateFirstSunday and calculateSecondSunday on every month and year
\* byte
InitSunday ==
    /\ CallBase
    /\ clockState = ClockState0 /\ gps = GPS0 /\ pins = AllHigh
    /\ arg \in {[fn |-> "calculateFirstSunday", month |-> m, year |-> y] :
                   m \in 0..255, y \in 0..255}

CallCalculateFirstSunday ==
    /\ pc = "call" /\ arg.fn = "calculateFirstSunday" /\ ret = NoCall
    /\ ret' = [fn     |-> "calculateFirstSunday",
               first  |-> calculateFirstSunday(arg.month, arg.year),
               second |-> calculateSecondSunday(arg.month, arg.year)]
    /\ UNCHANGED CallFrame

SpecSunday == InitSunday /\ [][CallCalculateFirstSunday]_vars

-----------------------------------------------------------------------------
(* millis() overflow                                                       *)

\* The firmware after 49.7 days of running: millis() is WrapLead ms short of
\* 2^32, the display and the switches have just been serviced, no fix has
\* been seen yet.  Time then advances across the overflow while loop() keeps
\* running.
WrapLead == 50
MaxWrapTicks == 3
WrapDeltas == {40, 59, TIMEZONE_CHECK_MS}
ReceivedWrap == {<<>>, <<PacificEdge>>}

InitWrap ==
    /\ pc = "loop"
    /\ millis = U32(Half - 1, Half - WrapLead)
    /\ \E mode \in Levels, dst \in Levels :
          /\ pins = [AllHigh EXCEPT !["AUTO_MODE_PIN"] = mode,
                                    !["DST_PIN"] = dst]
          /\ clockState =
                [ClockState0 EXCEPT
                    !.lastUpdate = millis,
                    !.lastTimezoneCheck = IF mode = "HIGH" THEN millis ELSE Zero32,
                    !.autoModeEnabled = (mode = "LOW"),
                    !.dstSwitchState = (mode = "HIGH" /\ dst = "LOW"),
                    !.isDSTActive = (mode = "HIGH" /\ dst = "LOW")]
    /\ blink = [lastBlink |-> millis, blinkState |-> FALSE]
    /\ gps = GPS0
    /\ display = Display0
    /\ ran = {}
    /\ ticks = 0
    /\ arg = NoCall
    /\ ret = NoCall

\* time passes, a bounded number of times
Elapse(d) ==
    /\ pc = "loop"
    /\ ticks < MaxWrapTicks
    /\ millis' = Add32(millis, d)
    /\ ticks' = ticks + 1
    /\ ran' = {}
    /\ display' = Display0
    /\ UNCHANGED <<clockState, gps, pins, blink, pc, arg, ret>>

WrapLoopPass ==
    \E rx \in ReceivedWrap, drift \in Drifts :
        LoopAt(rx, drift, MaxWrapTicks, TRUE)

NextWrap ==
    \/ WrapLoopPass
    \/ \E d \in WrapDeltas : Elapse(d)
    \/ SetPin("DST_PIN")

SpecWrap == InitWrap /\ [][NextWrap]_vars /\ WF_vars(WrapLoopPass)

-----------------------------------------------------------------------------
(* convertUTCToTimezone called directly, for every UTC time of day, every  *)
(* table index, indexes past the table, and with the caller's localHour    *)
(* and localMinute holding earlier values.                                 *)

ProbeIndexes == 0..(NUM_TIMEZONES + 1) \cup {255}
ProbeLocals  == {[localHour |-> 0, localMinute |-> 0],
                 [localHour |-> 23, localMinute |-> 59]}

InitConvert ==
    /\ CallBase
    /\ clockState = ClockState0 /\ gps = GPS0 /\ pins = AllHigh
    /\ arg \in {[fn |-> "convertUTCToTimezone", utcHour |-> h, utcMinute |-> m,
                  timezoneIndex |-> i, useDST |-> u, local |-> l] :
                   h \in 0..23, m \in 0..59, i \in ProbeIndexes,
                   u \in BOOLEAN, l \in ProbeLocals}

CallConvertUTCToTimezone ==
    /\ pc = "call" /\ arg.fn = "convertUTCToTimezone" /\ ret = NoCall
    /\ ret' = [fn    |-> "convertUTCToTimezone",
               local |-> convertUTCToTimezone(arg.utcHour, arg.utcMinute,
                             arg.timezoneIndex, arg.local.localHour,
                             arg.local.localMinute, arg.useDST)]
    /\ UNCHANGED CallFrame

SpecConvert == InitConvert /\ [][CallConvertUTCToTimezone]_vars

-----------------------------------------------------------------------------
(* One loop() pass in auto mode on a sentence with a fix, stepped through *)
(* its loops one condition test at a time: the two loops of normalizeHours *)
(* (called from updateTimeFromGPS in updateGPSData), the table scan of     *)
(* detectTimezoneFromLocation, and the rest of the pass (the lookup with   *)
(* the call of calculateDSTAuto, the mode switch, the display).  ret holds *)
(* the locals: hours, the scan index i and the number of entries visited.  *)
(* The pass starts where updateGPSData has parsed the sentence, stored the *)
(* fix and updateTimeFromGPS calls normalizeHours.                         *)

\* a point inside the second box, one inside the last box, one outside all
ProbePositions ==
    {[lat |-> (TIMEZONES[i].minLat + TIMEZONES[i].maxLat) \div 2,
      lon |-> (TIMEZONES[i].minLon + TIMEZONES[i].maxLon) \div 2] :
        i \in {1, NUM_TIMEZONES - 2}}
    \cup {[lat |-> Degrees(-60), lon |-> Degrees(100)]}

\* dates, well formed and not
PassMonths == {0, 3, 7, 11, 13}
PassDays   == {0, 15, 32}
PassYears  == {0, 255}

Locals(stage, i, visits, hours) ==
    [fn |-> "loop", stage |-> stage, i |-> i, visits |-> visits,
     hours |-> hours]

InitPass ==
    /\ millis = U32(0, LOCATION_CHECK_MS)
    /\ display = Display0
    /\ blink = Blink0
    /\ pc = "loop"
    /\ ran = {}
    /\ ticks = 0
    /\ pins = [AllHigh EXCEPT !["AUTO_MODE_PIN"] = "LOW"]
    /\ arg = NoCall
    /\ \E index \in 0..(NUM_TIMEZONES - 1), dst \in BOOLEAN :
          clockState = [ClockState0 EXCEPT !.gpsFixValid = TRUE,
                                           !.currentTimezoneIndex = index,
                                           !.isDSTActive = dst]
    /\ \E h \in 0..23, pos \in ProbePositions,
          m \in PassMonths, d \in PassDays, y \in PassYears :
          gps = Sentence(TRUE, TRUE, h, 30, 15, d, m, y, pos.lat, pos.lon).data
    /\ ret = Locals("negative", 0, 0,
                    gps.hour + calculateTimezoneOffset(clockState))

\* line 222: the test of the first loop, and its body
NegativeStep ==
    /\ ret.stage = "negative"
    /\ ret' = IF ret.hours < 0
              THEN [ret EXCEPT !.hours = NegativeBody(ret.hours)]
              ELSE [ret EXCEPT !.stage = "overflow"]
    /\ UNCHANGED CallFrame

\* line 225: the test of the second loop, and its body.  After the loop the
\* value is returned and stored (lines 212-215) and updateGPSData compares
\* the position (194-197).  The tests of updateLocationIfNeeded (331, 333,
\* 336) then all pass: there is a fix, and lastLat is still the 0.0 of the
\* constructor.
OverflowStep ==
    /\ ret.stage = "overflow"
    /\ IF ret.hours >= 24
       THEN /\ ret' = [ret EXCEPT !.hours = OverflowBody(ret.hours)]
            /\ UNCHANGED clockState
       ELSE LET a == [clockState EXCEPT !.hours = Byte(ret.hours),
                                       !.minutes = gps.minute,
                                       !.seconds = gps.seconds]
                b == IF \/ ExceedsTolerance(gps.latitudeDegrees, a.lastLat)
                        \/ ExceedsTolerance(gps.longitudeDegrees, a.lastLon)
                     THEN [a EXCEPT !.locationChanged = TRUE]
                     ELSE a
            IN  /\ clockState' = b
                /\ ret' = [ret EXCEPT !.stage = "scan"]
    /\ UNCHANGED <<gps, pins, millis, display, blink, pc, ran, ticks, arg>>

\* line 313: the loop test, and one entry of the table looked at
ScanStep ==
    /\ ret.stage = "scan"
    /\ ret' = IF ret.i < NUM_TIMEZONES - 1
              THEN IF InBox(TIMEZONES[ret.i], gps.latitudeDegrees,
                            gps.longitudeDegrees)
                   THEN [ret EXCEPT !.stage = "lookup",
                                    !.visits = @ + 1]
                   ELSE [ret EXCEPT !.i = @ + 1, !.visits = @ + 1]
              ELSE [ret EXCEPT !.stage = "lookup", !.i = NUM_TIMEZONES - 1]
    /\ UNCHANGED CallFrame

\* the rest of the pass: lines 340-366 with the index the scan returned
\* (millis() was read for the test of line 333 and is read again for the
\* stamp), the mode switch, and the display
RestStep ==
    /\ ret.stage = "lookup"
    /\ \E a \in {Read(adoptTimezone(
                        Read(Mark(EnterAt(clockState, millis, 0),
                                  "updateTimeFromGPS")), gps, ret.i))} :
       \E r \in {refreshIfDue(
                     checkModeSwitch([a EXCEPT !.lastLocationCheck = a.read],
                                     pins), blink)} :
          /\ clockState' = r.clockState
          /\ display' = r.display
          /\ blink' = r.blink
          /\ ran' = r.ran
          /\ millis' = r.millis
    /\ ret' = [ret EXCEPT !.stage = "done"]
    /\ UNCHANGED <<gps, pins, pc, ticks, arg>>

NextPass == NegativeStep \/ OverflowStep \/ ScanStep \/ RestStep

\* the processor always executes the next instruction
SpecPass == InitPass /\ [][NextPass]_vars /\ WF_vars(NextPass)

-----------------------------------------------------------------------------
(* Two clocks side by side, fed the same sentences and the same time, the   *)
(* mode switch of both closed (AUTO_MODE_PIN LOW) from power-on: two runs   *)
(* that stay in auto mode.  The reference clock (clockState, pins, display, *)
(* blink) has its selector and DST switches open; the twin, kept in ret,    *)
(* has them in any position and they may be moved at any time.              *)

Twin(st, p, d, bl) ==
    [fn |-> "twin", clockState |-> st, pins |-> p, display |-> d, blink |-> bl]

InitTwin ==
    /\ clockState = ClockState0
    /\ gps = GPS0
    /\ millis = Zero32
    /\ display = Display0
    /\ blink = Blink0
    /\ pc = "setup"
    /\ ran = {}
    /\ ticks = 0
    /\ arg = NoCall
    /\ pins = [AllHigh EXCEPT !["AUTO_MODE_PIN"] = "LOW"]
    /\ \E p \in PinSettings :
          /\ p["AUTO_MODE_PIN"] = "LOW"
          /\ ret = Twin(ClockState0, p, Display0, Blink0)

TwinSetupStart ==
    /\ pc = "setup"
    /\ LET pattern == [kind |-> "startup", value |-> STARTUP_PATTERN,
                       colon |-> TRUE, zeroed |-> {}]
       IN  /\ display' = pattern
           /\ ret' = [ret EXCEPT !.display = pattern]
    /\ ran' = {"setup"}
    /\ pc' = "delay"
    /\ UNCHANGED <<clockState, gps, pins, millis, blink, ticks, arg>>

TwinSetupFinish ==
    /\ pc = "delay"
    /\ LET a == initializePins(Enter(clockState), pins)
           b == initializePins(Enter(ret.clockState), ret.pins)
           cleared == [kind |-> "clear", value |-> 0, colon |-> FALSE,
                       zeroed |-> {}]
       IN  /\ clockState' = Fields(a)
           /\ ran' = a.ran \cup {"setup"}
           /\ display' = cleared
           /\ ret' = Twin(Fields(b), ret.pins, cleared, ret.blink)
    /\ millis' = Add32(millis, STARTUP_DELAY_MS)
    /\ pc' = "loop"
    /\ UNCHANGED <<gps, pins, blink, ticks, arg>>

TwinSetup == TwinSetupStart \/ TwinSetupFinish

\* both clocks run one pass of loop() on the same sentence, with the same
\* values read from the clock
TwinLoop(rx, drift) ==
    /\ pc = "loop"
    /\ drift > 0 => ticks < MaxTicks
    /\ \E a \in {loopPass(clockState, gps, pins, millis, blink, rx, drift)},
          b \in {loopPass(ret.clockState, gps, ret.pins, millis, ret.blink, rx,
                          drift)} :
           /\ gps' = a.gps
           /\ clockState' = a.clockState
           /\ display' = a.display
           /\ blink' = a.blink
           /\ ran' = a.ran
           /\ millis' = a.millis
           /\ ret' = Twin(b.clockState, ret.pins, b.display, b.blink)
    /\ ticks' = IF drift > 0 THEN ticks + 1 ELSE ticks
    /\ UNCHANGED <<pins, pc, arg>>

\* the twin's DST switch is flipped
TwinSetDst ==
    /\ pc \in {"delay", "loop"}
    /\ ret' = [ret EXCEPT !.pins["DST_PIN"] =
                              IF @ = "LOW" THEN "HIGH" ELSE "LOW",
                          !.display = Display0]
    /\ ran' = {}
    /\ display' = Display0
    /\ UNCHANGED <<clockState, gps, pins, millis, blink, pc, ticks, arg>>

\* the twin's selector is turned
TwinSetSelector(v) ==
    /\ pc \in {"delay", "loop"}
    /\ v # readTimezoneSwitches(ret.pins)
    /\ ret' = [ret EXCEPT !.pins = SelectorPins(v) @@ @,
                          !.display = Display0]
    /\ ran' = {}
    /\ display' = Display0
    /\ UNCHANGED <<clockState, gps, pins, millis, blink, pc, ticks, arg>>

TwinTick(d) ==
    /\ pc = "loop"
    /\ ticks < MaxTicks
    /\ millis' = Add32(millis, d)
    /\ ticks' = ticks + 1
    /\ ran' = {}
    /\ display' = Display0
    /\ ret' = [ret EXCEPT !.display = Display0]
    /\ UNCHANGED <<clockState, gps, pins, blink, pc, arg>>

NextTwin ==
    \/ TwinSetup
    \/ \E rx \in Received, drift \in Drifts : TwinLoop(rx, drift)
    \/ TwinSetDst
    \/ \E v \in SelectorSettings : TwinSetSelector(v)
    \/ \E d \in Deltas : TwinTick(d)

SpecTwin == InitTwin /\ [][NextTwin]_vars

-----------------------------------------------------------------------------
(* The original sketch (original/clock_dst_tz.ino): one pass of its loop(),  *)
(* for a build with #define HOUR_OFFSET hourOffset                           *)

isDST(dstPin) == IF dstPin = "HIGH" THEN 1 ELSE 0

timeZone(hourOffset) == hourOffset

\* the hours and displayValue locals at the end of loop(), composed from the
\* fields g the pass has after its gps.parse(); the sketch is built with
\* TIME_24_HOUR false as well
originalLoop(hourOffset, g, dstPin) ==
    LET sum     == g.hour + timeZone(hourOffset) + isDST(dstPin)
        a       == IF sum < 0 THEN 24 + sum ELSE sum
        hours   == IF a > 23 THEN 24 - a ELSE a
        minutes == g.minute
        value   == hours * 100 + minutes
    IN  [hours |-> hours,
         displayValue |-> IF ~TIME_24_HOUR
                          THEN IF hours > 12 THEN value - 1200
                               ELSE IF hours = 0 THEN value + 1200
                               ELSE value
                          ELSE value,
         colon |-> (g.seconds % 2 = 0),
         zeroed |-> IF TIME_24_HOUR /\ hours = 0
                    THEN {1} \cup (IF minutes < 10 THEN {2} ELSE {})
                    ELSE {}]

OffsetsConfigured == -12..14

InitOriginal ==
    /\ CallBase
    /\ clockState = ClockState0
    /\ \E h \in 0..23, m \in {0, 30} :
          gps = [GPS0 EXCEPT !.hour = h, !.minute = m]
    /\ \E l \in Levels : pins = [AllHigh EXCEPT !["DST_PIN"] = l]
    /\ arg \in {[fn |-> "originalLoop", hourOffset |-> o, rx |-> rx] :
                   o \in OffsetsConfigured, rx \in Received}

CallOriginalLoop ==
    /\ pc = "call" /\ arg.fn = "originalLoop" /\ ret = NoCall
    /\ gps' = parse(gps, arg.rx)
    /\ \E r \in {originalLoop(arg.hourOffset, parse(gps, arg.rx),
                                digitalRead(pins, "DST_PIN"))} :
          /\ ret' = [fn |-> "originalLoop"] @@ r
          /\ display' = [kind |-> "time", value |-> r.displayValue,
                         colon |-> r.colon, zeroed |-> r.zeroed]
    /\ ran' = {"loop"}
    /\ UNCHANGED <<clockState, pins, millis, blink, pc, ticks, arg>>

SpecOriginal == InitOriginal /\ [][CallOriginalLoop]_vars

-----------------------------------------------------------------------------
(* The Gregorian calendar, counted in days from Saturday 1 January 2000;   *)
(* the reference the DST claims are stated against.                        *)

IsLeapYear(y) == (y % 4 = 0 /\ y % 100 # 0) \/ y % 400 = 0

DaysInMonth(m, y) ==
    IF m = 2 THEN (IF IsLeapYear(y) THEN 29 ELSE 28)
    ELSE IF m \in {4, 6, 9, 11} THEN 30 ELSE 31

RECURSIVE DaysBeforeYear(_)
DaysBeforeYear(y) ==
    IF y <= 2000 THEN 0
    ELSE DaysBeforeYear(y - 1) + (IF IsLeapYear(y - 1) THEN 366 ELSE 365)

RECURSIVE DaysBeforeMonth(_, _)
DaysBeforeMonth(m, y) ==
    IF m <= 1 THEN 0 ELSE DaysBeforeMonth(m - 1, y) + DaysInMonth(m - 1, y)

\* weekday of y-m-d with Sunday = 0
CalendarWeekday(y, m, d) ==
    (6 + DaysBeforeYear(y) + DaysBeforeMonth(m, y) + (d - 1)) % 7

CalendarFirstSunday(m, y) ==
    CHOOSE d \in 1..7 : CalendarWeekday(y, m, d) = 0

CalendarSecondSunday(m, y) == CalendarFirstSunday(m, y) + 7

-----------------------------------------------------------------------------
(* Claims                                                                  *)

\* C1: for every UTC hour h in 0..23 and total offset o in -14..14,
\* normalizeHours(h + o) lies in 0..23 and normalizing it again after taking
\* the offset back off returns h.
C1_NormalizeRoundTrip ==
    ret.fn = "normalizeHours" =>
        /\ ret.local \in 0..23
        /\ ret.back = arg.h

\* C1 witness: 23h UTC at +14 wraps past midnight to 13h and comes back
C1_Witness ==
    /\ ret.fn = "normalizeHours"
    /\ arg.h = 23 /\ arg.o = 14
    /\ ret.local = 13 /\ ret.back = 23

\* C2: with a fix and a DST-observing timezone, in March of 2000+year
\* calculateDSTAuto is false before the calendar's second Sunday of March and
\* true from it on.
C2_MarchFollowsCalendar ==
    ( /\ ret.fn = "calculateDSTAuto"
      /\ clockState.gpsFixValid
      /\ getCurrentTimezone(clockState).observesDST
      /\ gps.year \in 0..99
      /\ gps.day \in 1..31
      /\ gps.month = 3 )
    => (ret.value <=> gps.day >= CalendarSecondSunday(3, 2000 + gps.year))

\* C3: with a fix and a DST-observing timezone, in November of 2000+year
\* calculateDSTAuto is true strictly before the calendar's first Sunday of
\* November and false from it on.
C3_NovemberFollowsCalendar ==
    ( /\ ret.fn = "calculateDSTAuto"
      /\ clockState.gpsFixValid
      /\ getCurrentTimezone(clockState).observesDST
      /\ gps.year \in 0..99
      /\ gps.day \in 1..31
      /\ gps.month = 11 )
    => (ret.value <=> gps.day < CalendarFirstSunday(11, 2000 + gps.year))

\* C5: detectTimezoneFromLocation returns the smallest index among the
\* non-fallback entries whose closed bounding box contains the point, and the
\* fallback index NUM_TIMEZONES - 1 when no box contains it.
C5_FirstMatchOrFallback ==
    ret.fn = "detectTimezoneFromLocation" =>
        LET matches == {i \in 0..(NUM_TIMEZONES - 2) :
                           /\ TIMEZONES[i].minLat <= arg.lat
                           /\ arg.lat <= TIMEZONES[i].maxLat
                           /\ TIMEZONES[i].minLon <= arg.lon
                           /\ arg.lon <= TIMEZONES[i].maxLon}
        IN  IF matches = {}
            THEN ret.value = NUM_TIMEZONES - 1
            ELSE /\ ret.value \in matches
                 /\ \A j \in matches : ret.value <= j

\* C5 witness: a point on the shared Pacific/Mountain edge, inside both boxes,
\* resolves to Pacific, the first declared
C5_Witness ==
    /\ ret.fn = "detectTimezoneFromLocation"
    /\ arg.lat = Degrees(32) /\ arg.lon = Degrees(-114)
    /\ ret.value = 0

\* C4: in manual mode, right after updateTimezoneSettings has run (at
\* startup, on a poll, or on the switch from auto mode), currentTimezoneIndex
\* is the value of the three selector bits modulo NUM_TIMEZONES.
C4_ManualIndexFollowsSelector ==
    ( /\ pc = "loop"
      /\ ~clockState.autoModeEnabled
      /\ "updateTimezoneSettings" \in ran )
    => clockState.currentTimezoneIndex
           = readTimezoneSwitches(pins) % NUM_TIMEZONES

\* C6: if the clock is in manual mode and the mode pin reads LOW from then
\* on, autoModeEnabled eventually becomes true.
C6_PinLowRestoresAuto ==
    []( ( /\ pc = "loop"
          /\ ~clockState.autoModeEnabled
          /\ [](pins["AUTO_MODE_PIN"] = "LOW") )
        => <>clockState.autoModeEnabled )

\* C7: a loop() pass that starts in auto mode with the mode pin HIGH ends in
\* manual mode with the switches read, whatever gpsFixValid is.
C7_PinHighLeavesAuto ==
    [][ ( /\ "loop" \in ran'
          /\ clockState.autoModeEnabled
          /\ pins["AUTO_MODE_PIN"] = "HIGH" )
        => ( /\ ~clockState'.autoModeEnabled
             /\ "updateTimezoneSettings" \in ran' ) ]_vars

\* C8: isDSTActive is true only while the current timezone observes DST.
C8_DstOnlyWhereObserved ==
    clockState.isDSTActive => getCurrentTimezone(clockState).observesDST

\* C9: currentTimezoneIndex always indexes inside TIMEZONES.
C9_IndexInRange ==
    /\ clockState.currentTimezoneIndex >= 0
    /\ clockState.currentTimezoneIndex < NUM_TIMEZONES

\* C9 witness: auto mode has just resolved a position outside every box to
\* the fallback entry, the last index of the table
C9_Witness ==
    /\ clockState.autoModeEnabled
    /\ "detectTimezoneFromLocation" \in ran
    /\ gps.latitudeDegrees = 5150
    /\ clockState.currentTimezoneIndex = NUM_TIMEZONES - 1

\* C10: a pass in auto mode with a valid fix, at least LOCATION_CHECK_MS after
\* lastLocationCheck, leaves currentTimezoneIndex equal to
\* detectTimezoneFromLocation of the current GPS position.
C10_IntervalReResolves ==
    [][ ( /\ "loop" \in ran'
          /\ clockState.autoModeEnabled
          /\ clockState'.autoModeEnabled
          /\ clockState'.gpsFixValid
          /\ AtLeast(Elapsed(millis, clockState.lastLocationCheck),
                     LOCATION_CHECK_MS) )
        => clockState'.currentTimezoneIndex
               = detectTimezoneFromLocation(gps'.latitudeDegrees,
                                            gps'.longitudeDegrees) ]_vars

\* C11: a pass in auto mode that parses a fix whose position differs from
\* (lastLat, lastLon) by more than LOCATION_TOLERANCE in latitude or longitude
\* records that position as lastLat/lastLon and clears locationChanged in the
\* same pass, whatever time has elapsed since lastLocationCheck, and (unless
\* the pass also leaves auto mode) leaves currentTimezoneIndex equal to
\* detectTimezoneFromLocation of that position.
C11_MoveReResolves ==
    [][ ( /\ "loop" \in ran'
          /\ clockState.autoModeEnabled
          /\ "updateTimeFromGPS" \in ran'
          /\ \/ Abs(gps'.latitudeDegrees - clockState.lastLat)
                    > LOCATION_TOLERANCE
             \/ Abs(gps'.longitudeDegrees - clockState.lastLon)
                    > LOCATION_TOLERANCE )
        => ( /\ "detectTimezoneFromLocation" \in ran'
             /\ clockState'.lastLat = gps'.latitudeDegrees
             /\ clockState'.lastLon = gps'.longitudeDegrees
             /\ ~clockState'.locationChanged
             /\ ( clockState'.autoModeEnabled =>
                    clockState'.currentTimezoneIndex
                        = detectTimezoneFromLocation(gps'.latitudeDegrees,
                                                     gps'.longitudeDegrees) ) ) ]_vars

\* C11 witness: 1000 ms after power-up, long before LOCATION_CHECK_MS has
\* elapsed, a first fix in the Mountain box has been resolved
C11_Witness ==
    /\ clockState.autoModeEnabled
    /\ "detectTimezoneFromLocation" \in ran
    /\ ticks = 0
    /\ ~AtLeast(millis, LOCATION_CHECK_MS)
    /\ clockState.lastLat = 4000 /\ clockState.lastLon = -11397
    /\ ~clockState.locationChanged
    /\ clockState.currentTimezoneIndex = 1

\* C12: every loop() pass that changes currentTimezoneIndex, by auto
\* detection or by a manual switch poll, leaves isDSTActive equal to the
\* result of calculateDSTAuto for the new timezone and the current GPS date.
C12_IndexChangeReevaluatesDst ==
    [][ ( /\ "loop" \in ran'
          /\ clockState'.currentTimezoneIndex # clockState.currentTimezoneIndex )
        => clockState'.isDSTActive = calculateDSTAuto(clockState', gps') ]_vars

\* C13: a loop() pass that ends with gpsFixValid false has not called
\* updateTimeFromGPS and leaves hours, minutes and seconds as they were; if it
\* refreshed the display it went through showNoGPSIndicator and printed no
\* time value.
C13_NoFixNoTime ==
    [][ ( /\ "loop" \in ran'
          /\ ~clockState'.gpsFixValid )
        => ( /\ "updateTimeFromGPS" \notin ran'
             /\ clockState'.hours = clockState.hours
             /\ clockState'.minutes = clockState.minutes
             /\ clockState'.seconds = clockState.seconds
             /\ display'.kind # "time"
             /\ "print" \notin ran'
             /\ ( "updateDisplay" \in ran'
                    => "showNoGPSIndicator" \in ran' ) ) ]_vars

\* C13 witness: a sentence without fix arrived after a time had been
\* composed, and the refresh of that pass blinked the no-GPS indicator
C13_Witness ==
    /\ ~clockState.gpsFixValid
    /\ ~gps.fix
    /\ clockState.minutes = 30
    /\ "showNoGPSIndicator" \in ran
    /\ display.kind \in {"zero", "clear"}

\* C14: a sentence with fix carrying UTC h:m:s, parsed with timezone T and DST
\* flag D and shown by the next updateDisplay with T and D unchanged, prints
\* displayHour * 100 + m and draws the colon iff s is even, where the local
\* hour is h + T.utcOffset (+ T.dstOffset if D and T observes DST) modulo 24
\* and displayHour is the local hour in a 24-hour build and its 1..12
\* numeral in a 12-hour build.
C14_DisplayShowsLocalTime ==
    ret.fn = "refresh" =>
        LET T     == TIMEZONES[clockState.currentTimezoneIndex]
            D     == clockState.isDSTActive
            utc   == arg.rx[1].data
            local == (utc.hour + T.utcOffset
                      + (IF D /\ T.observesDST THEN T.dstOffset ELSE 0)) % 24
            displayHour == IF arg.time24 THEN local
                           ELSE ((local + 11) % 12) + 1
        IN  /\ ret.display.kind = "time"
            /\ ret.display.value = displayHour * 100 + utc.minute
            /\ ret.display.colon = (utc.seconds % 2 = 0)

\* C14 witness: UTC 14:30:15, Pacific, DST on, 12-hour build: 730, colon off
C14_Witness ==
    /\ ret.fn = "refresh"
    /\ ~arg.time24
    /\ arg.rx[1].data.hour = 14
    /\ arg.rx[1].data.minute = 30
    /\ arg.rx[1].data.seconds = 15
    /\ clockState.currentTimezoneIndex = 0
    /\ clockState.isDSTActive
    /\ ret.display.value = 730
    /\ ~ret.display.colon

\* C15: for every hour h in 0..23, convertTo12Hour(h) is 12 for h = 0,
\* h - 12 for h in 13..23 and h for h in 1..12, hence always in 1..12.
C15_TwelveHourNumeral ==
    ret.fn = "refresh" =>
        /\ ret.hours \in 0..23
        /\ ret.hours12 \in 1..12
        /\ (ret.hours = 0 => ret.hours12 = 12)
        /\ (ret.hours \in 13..23 => ret.hours12 = ret.hours - 12)
        /\ (ret.hours \in 1..12 => ret.hours12 = ret.hours)

\* C15 witness: 13 h local time (UTC 23 h in Hawaii) shows as 1
C15_Witness ==
    /\ ret.fn = "refresh"
    /\ arg.rx[1].data.hour = 23
    /\ clockState.currentTimezoneIndex = 5
    /\ ret.hours = 13
    /\ ret.hours12 = 1

\* C16: in the original sketch, for every HOUR_OFFSET in -12..14, every GPS
\* hour in 0..23 and both DST pin levels, hours after the day-boundary
\* adjustment lies in 0..23 and equals gps.hour + HOUR_OFFSET + isDST()
\* modulo 24.
C16_OriginalHoursWrap ==
    ret.fn = "originalLoop" =>
        /\ ret.hours \in 0..23
        /\ ret.hours = (gps.hour + arg.hourOffset
                        + (IF pins["DST_PIN"] = "HIGH" THEN 1 ELSE 0)) % 24

\* C17: with a fix and a timezone that observes DST, calculateDSTAuto is true
\* on every date of April..October and false on every date of January,
\* February and December, whatever the day and the year.
C17_SummerOnWinterOff ==
    ( /\ ret.fn = "calculateDSTAuto"
      /\ clockState.gpsFixValid
      /\ getCurrentTimezone(clockState).observesDST )
    => /\ (gps.month \in 4..10 => ret.value)
       /\ (gps.month \in {1, 2, 12} => ~ret.value)

\* C17 witness: 30 April 2099 in Alaska, DST on
C17_Witness ==
    /\ ret.fn = "calculateDSTAuto"
    /\ clockState.gpsFixValid
    /\ clockState.currentTimezoneIndex = 6
    /\ gps.month = 4 /\ gps.day = 30 /\ gps.year = 99
    /\ ret.value

\* C18: in auto mode, after every pass that ran the geographic lookup with a
\* valid fix, isDSTActive equals calculateDSTAuto for the resolved timezone
\* and the current GPS date, also when the lookup returned the index already
\* stored.
C18_LookupRefreshesDst ==
    ( /\ pc = "loop"
      /\ clockState.autoModeEnabled
      /\ clockState.gpsFixValid
      /\ "detectTimezoneFromLocation" \in ran )
    => clockState.isDSTActive = calculateDSTAuto(clockState, gps)

\* C19: whenever updateDisplay has just printed a time, clockState.hours is
\* normalizeHours(last parsed UTC hour + calculateTimezoneOffset()) for the
\* timezone index and DST flag current at that refresh.
C19_ShownHourUsesCurrentOffset ==
    ( /\ pc = "loop"
      /\ clockState.gpsFixValid
      /\ "print" \in ran )
    => clockState.hours
           = normalizeHours(gps.hour + calculateTimezoneOffset(clockState))

\* C20: in manual mode, right after updateTimezoneSettings has run,
\* isDSTActive is the DST switch reading (pin LOW = on).
C20_ManualDstFollowsSwitch ==
    ( /\ pc = "loop"
      /\ ~clockState.autoModeEnabled
      /\ "updateTimezoneSettings" \in ran )
    => clockState.isDSTActive = (digitalRead(pins, "DST_PIN") = "LOW")

\* C21: for every two-digit year 0..99 and months 3 and 11,
\* calculateFirstSunday(month, year) is the day of the month of the
\* calendar's first Sunday of that month in 2000+year, and
\* calculateSecondSunday is that day plus 7.
C21_FirstSundayIsCalendarSunday ==
    ( /\ ret.fn = "calculateFirstSunday"
      /\ arg.month \in {3, 11}
      /\ arg.year \in 0..99 )
    => /\ ret.first = CalendarFirstSunday(arg.month, 2000 + arg.year)
       /\ ret.second = CalendarFirstSunday(arg.month, 2000 + arg.year) + 7

\* C28: for every month byte and year byte, calculateFirstSunday returns a
\* day in 1..7 and calculateSecondSunday a day in 8..14.
C28_SundaysInFirstTwoWeeks ==
    ret.fn = "calculateFirstSunday" =>
        /\ ret.first \in 1..7
        /\ ret.second \in 8..14

\* C28 witness: a November in which the code takes the 1st for its Sunday
C28_Witness ==
    /\ ret.fn = "calculateFirstSunday"
    /\ arg.month = 11 /\ arg.year \in 0..99
    /\ ret.first = 1
    /\ ret.second = 8

\* C22: a second updateLocationIfNeeded evaluation with an unchanged GPS
\* position and date and the mode pin still selecting auto mode leaves
\* currentTimezoneIndex and isDSTActive exactly as the first one left them:
\* a pass in auto mode that starts with the fix of the previous evaluation
\* and ends with the same GPS data changes neither.
C22_ReevaluationChangesNothing ==
    [][ ( /\ "loop" \in ran'
          /\ clockState.autoModeEnabled
          /\ clockState.gpsFixValid
          /\ gps.fix
          /\ gps' = gps
          /\ pins["AUTO_MODE_PIN"] = "LOW" )
        => ( /\ clockState'.currentTimezoneIndex
                    = clockState.currentTimezoneIndex
             /\ clockState'.isDSTActive = clockState.isDSTActive ) ]_vars

\* C23: for every entry of TIMEZONES and both values of isDSTActive,
\* calculateTimezoneOffset() is utcOffset + (isDSTActive ? dstOffset : 0).
C23_TotalOffset ==
    ret.fn = "refresh" =>
        LET T == TIMEZONES[clockState.currentTimezoneIndex]
        IN  ret.offset = T.utcOffset
                         + (IF clockState.isDSTActive THEN T.dstOffset ELSE 0)

\* C23 witness: Hawaii (no DST) with the DST flag set: offset -10
C23_Witness ==
    /\ ret.fn = "refresh"
    /\ clockState.currentTimezoneIndex = 5
    /\ clockState.isDSTActive
    /\ ret.offset = -10

\* C25: whatever the timezone index and DST flag have become, the value
\* updateDisplay prints for a GPS hour in 0..23 and minute in 0..59 is in
\* 0..9999, its hundreds part is in 1..12 in a 12-hour build and in 0..23 in
\* a 24-hour build, and its last two digits are in 0..59.
C25_PrintedValueIsClockValue ==
    ( /\ ret.fn = "refresh"
      /\ ret.display.kind = "time" )
    => /\ ret.display.value \in 0..9999
       /\ (~arg.time24 => ret.display.value \div 100 \in 1..12)
       /\ (arg.time24 => ret.display.value \div 100 \in 0..23)
       /\ ret.display.value % 100 \in 0..59

\* C25 witness: UTC 00:59 in Hawaii with the DST flag set, 24-hour build:
\* the previous day's 14:59
C25_Witness ==
    /\ ret.fn = "refresh"
    /\ arg.time24
    /\ arg.rx[1].data.hour = 0
    /\ arg.rx[1].data.minute = 59
    /\ clockState.currentTimezoneIndex = 5
    /\ clockState.isDSTActive
    /\ ret.display.kind = "time"
    /\ ret.display.value = 1459

\* C24: calculateDSTAuto returns false for every date, well formed or not,
\* whenever the current timezone does not observe DST and whenever
\* gpsFixValid is false.
C24_NoDstWithoutZoneOrFix ==
    ( /\ ret.fn = "calculateDSTAuto"
      /\ \/ ~getCurrentTimezone(clockState).observesDST
         \/ ~clockState.gpsFixValid )
    => ~ret.value

\* C24 witness: 15 July with a fix in Hawaii, which does not observe DST
C24_Witness ==
    /\ ret.fn = "calculateDSTAuto"
    /\ clockState.gpsFixValid
    /\ clockState.currentTimezoneIndex = 5
    /\ gps.month = 7 /\ gps.day = 15
    /\ ~ret.value

\* Milliseconds from the overflow of millis() to time stamp t (negative
\* before it), for time stamps within 2^16 ms of the overflow
SinceOverflow(t) == IF t.hi = 0 THEN t.lo ELSE t.lo - Half
RealElapsedAt(t, last) == SinceOverflow(t) - SinceOverflow(last)
RealElapsed(last) == RealElapsedAt(millis, last)

\* C26: across the overflow of millis(), a loop() pass refreshes the display
\* iff at least DISPLAY_UPDATE_MS have really elapsed from lastUpdate to the
\* call of millis() in the test of line 118 (the last of the calls kept in
\* ret.reads) and, in manual mode, polls the switches iff at least
\* TIMEZONE_CHECK_MS have really elapsed from lastTimezoneCheck to the call of
\* millis() in the test of line 457 (the first call of such a pass); and
\* while loop() keeps running a due refresh and a due poll do happen.
C26_GatesSurviveOverflow ==
    /\ [][ "loop" \in ran' =>
              /\ ( "updateDisplay" \in ran'
                     <=> RealElapsedAt(ret'.reads[Len(ret'.reads)],
                                       clockState.lastUpdate)
                            >= DISPLAY_UPDATE_MS )
              /\ ( ~clockState.autoModeEnabled =>
                     ( "updateTimezoneSettings" \in ran'
                         <=> RealElapsedAt(ret'.reads[1],
                                           clockState.lastTimezoneCheck)
                                >= TIMEZONE_CHECK_MS ) ) ]_vars
    /\ ( RealElapsed(clockState.lastUpdate) >= DISPLAY_UPDATE_MS
           ~> "updateDisplay" \in ran )
    /\ ( ( /\ ~clockState.autoModeEnabled
           /\ RealElapsed(clockState.lastTimezoneCheck) >= TIMEZONE_CHECK_MS )
           ~> "updateTimezoneSettings" \in ran )

\* C26 witness: 99 ms after the last refresh, and 49 ms after the overflow,
\* a manual-mode pass starts while the clock is running on: the test of line
\* 457 reads 49, the test of line 118 reads 50, which is 100 ms after the
\* last refresh, and the display is refreshed and stamped with 52
C26_Witness ==
    /\ ticks = 3
    /\ ~clockState.autoModeEnabled
    /\ ret = [fn |-> "loop", reads |-> <<U32(0, 49), U32(0, 50)>>]
    /\ "updateDisplay" \in ran
    /\ "updateTimezoneSettings" \notin ran
    /\ clockState.lastUpdate = U32(0, 52)
    /\ clockState.lastTimezoneCheck = U32(Half - 1, Half - WrapLead)
    /\ millis = U32(0, 52)

\* C27: two clocks that get the same sentences, time and mode pin and differ
\* only in the levels of the selector pins and the DST pin have, as long as
\* both are in auto mode, the same currentTimezoneIndex, the same isDSTActive
\* and the same display output at every step.
C27_ManualPinsIgnoredInAuto ==
    ( /\ pc = "loop"
      /\ clockState.autoModeEnabled
      /\ ret.clockState.autoModeEnabled )
    => /\ ret.clockState.currentTimezoneIndex = clockState.currentTimezoneIndex
       /\ ret.clockState.isDSTActive = clockState.isDSTActive
       /\ ret.display = display

\* C27 witness: the twin has its selector at 7 and its DST switch closed, the
\* reference has both open, and both have just resolved Mountain time and
\* printed the same value
C27_Witness ==
    /\ pc = "loop"
    /\ clockState.autoModeEnabled
    /\ ret.clockState.autoModeEnabled
    /\ readTimezoneSwitches(ret.pins) = 7
    /\ ret.pins["DST_PIN"] = "LOW"
    /\ readTimezoneSwitches(pins) = 0
    /\ pins["DST_PIN"] = "HIGH"
    /\ clockState.currentTimezoneIndex = 1
    /\ ret.clockState.currentTimezoneIndex = 1
    /\ display.kind = "time"
    /\ ret.display = display

\* C30: for a table index, a UTC hour 0..23 and minute 0..59,
\* convertUTCToTimezone yields localHour = normalizeHours(utcHour + utcOffset
\* + (dstOffset if useDST and the entry observes DST, else 0)) and
\* localMinute = utcMinute, as the main time composition would; for an index
\* at or past NUM_TIMEZONES it leaves localHour and localMinute as they were.
C30_WorldClockAgreesWithCompositor ==
    ret.fn = "convertUTCToTimezone" =>
        IF arg.timezoneIndex < NUM_TIMEZONES
        THEN LET tz == TIMEZONES[arg.timezoneIndex]
             IN  /\ ret.local.localHour =
                        normalizeHours(arg.utcHour + tz.utcOffset
                            + (IF arg.useDST /\ tz.observesDST
                               THEN tz.dstOffset ELSE 0))
                 /\ ret.local.localMinute = arg.utcMinute
        ELSE ret.local = arg.local

\* C30 witness: 02:30 UTC converted for Pacific time with DST is 19:30 of the
\* day before
C30_Witness ==
    /\ ret.fn = "convertUTCToTimezone"
    /\ arg.timezoneIndex = 0 /\ arg.useDST
    /\ arg.utcHour = 2 /\ arg.utcMinute = 30
    /\ arg.local.localHour = 0
    /\ ret.local = [localHour |-> 19, localMinute |-> 30]

\* what a pass may leave behind: at most NUM_TIMEZONES-1 entries visited, the
\* hour of the day stored, and a DST flag fixed by the date alone
PassInBounds ==
    /\ ret.visits <= NUM_TIMEZONES - 1
    /\ ret.stage \notin {"negative", "overflow"} => clockState.hours \in 0..23
    /\ (ret.stage = "scan" /\ ret.visits = 0) =>
          clockState.hours =
              (gps.hour + calculateTimezoneOffset(clockState) + 24) % 24
    /\ "calculateDSTAuto" \in ran =>
          /\ clockState.isDSTActive \in BOOLEAN
          /\ (gps.month < 3 \/ gps.month > 11) => ~clockState.isDSTActive
          /\ (gps.month > 3 /\ gps.month < 11) => clockState.isDSTActive
          /\ (gps.month = 3 /\ gps.day = 0) => ~clockState.isDSTActive
          /\ (gps.month = 3 /\ gps.day >= 15) => clockState.isDSTActive
          /\ (gps.month = 11 /\ gps.day = 0) => clockState.isDSTActive
          /\ (gps.month = 11 /\ gps.day >= 15) => ~clockState.isDSTActive

\* C29: every loop() pass terminates.  The table scan visits at most
\* NUM_TIMEZONES-1 entries; the two loops of normalizeHours end, for every
\* GPS hour 0..23 and every offset of the table, with the hour of the day;
\* and calculateDSTAuto gives a boolean fixed by its inputs for every date,
\* malformed ones included: off for a month below 3 or above 11, on for the
\* months 4..10 whatever the day, in March on from the second Sunday (so off
\* on day 0, on on day 32), in November off from the first Sunday (so on on
\* day 0, off on day 32).
C29_PassTerminates ==
    /\ <>(ret.stage = "done")
    /\ []PassInBounds

\* C29 witness: 03:30 UTC at the Alaska probe on day 32 of month 3, with the
\* clock coming from Hawaii: the first loop taken once, 17 stored and
\* printed as 5:30, seven entries visited, DST found on
C29_Witness ==
    /\ ret.stage = "done"
    /\ ret.visits = NUM_TIMEZONES - 1
    /\ clockState.currentTimezoneIndex = NUM_TIMEZONES - 2
    /\ "calculateDSTAuto" \in ran
    /\ gps.hour = 3 /\ gps.month = 3 /\ gps.day = 32
    /\ clockState.isDSTActive
    /\ clockState.hours = 17
    /\ display.kind = "time" /\ display.value = 530

=============================================================================
